---- MODULE Spec2Model ----
(***************************************************************************)
(* A model of brepdiff's two metric utilities:                             *)
(*   src/src/brepdiff/metrics/fid.py                                       *)
(*   src/src/brepdiff/utils/chamfer_distance/chamfer_distance.py           *)
(*                                                                         *)
(* Numbers are exact integers (a subset of the floats on which numpy's     *)
(* arithmetic is exact).  Arrays are records [shape, data] with the data   *)
(* flat in row-major order, as numpy stores them.                          *)
(***************************************************************************)
EXTENDS Integers, Sequences, FiniteSets, TLC

VARIABLES
    pc,         \* position of the one control thread: "call" before the body runs
    mu1,        \* calculate_frechet_distance: argument mu1
    sigma1,     \* calculate_frechet_distance: argument sigma1
    mu2,        \* calculate_frechet_distance: argument mu2
    sigma2,     \* calculate_frechet_distance: argument sigma2
    frechet,    \* calculate_frechet_distance: how the call ended
    xyz1,       \* ChamferDistanceFunction.forward: argument xyz1
    xyz2,       \* ChamferDistanceFunction.forward: argument xyz2
    fwd,        \* ChamferDistanceFunction.forward: how the call ended
    ctx,        \* the tensors forward saved for backward
    bwd,        \* ChamferDistanceFunction.backward: the gradients returned
    files,      \* get_activations: argument files
    batch_size, \* get_activations: argument batch_size
    act,        \* get_activations: how the call ended
    entry,      \* the FID entry point called, with its arguments
    events,     \* what the entry point did, in order: models loaded, files read and written
    fid         \* how the entry point ended

frechetVars == <<mu1, sigma1, mu2, sigma2, frechet>>

chamferVars == <<xyz1, xyz2, fwd, ctx, bwd>>

activationVars == <<files, batch_size, act>>

entryVars == <<entry, events, fid>>

vars == <<pc, frechetVars, chamferVars, activationVars, entryVars>>

None == [kind |-> "none"]

(***************************************************************************)
(* Bounds of the model.                                                    *)
(***************************************************************************)
\* Entries of the mean vectors are 0 or MaxMu.
MaxMu == 3
\* Diagonal entries of the covariance inputs are -1, 0, 1 or MaxDiag.
MaxDiag == 3
\* Off-diagonal (upper) entries of the 2x2 covariance inputs range over 0..MaxOff.
MaxOff == 1
\* Point sets hold 1..MaxPoints points, in batches of 1..MaxBatch.
MaxPoints == 2
MaxBatch == 2
\* A point is the origin or MaxCoord along one axis.
MaxCoord == 1
\* File lists hold 0..MaxFiles files, named 1..MaxFiles.
MaxFiles == 3
\* Requested batch sizes range over 0..MaxBatchSize.
MaxBatchSize == 4

(***************************************************************************)
(* calculate_frechet_distance's eps argument.  The default is 1e-6; the    *)
(* model calls the function with eps=1 so that sigma + eps*I stays within  *)
(* the integers.  The tolerance atol=1e-3 of the imaginary-part test is    *)
(* below one unit, so on integers the test is "imag = 0".                  *)
(***************************************************************************)
eps == 1

(***************************************************************************)
(* numpy arrays                                                            *)
(***************************************************************************)
Arr(shape, data) == [shape |-> shape, data |-> data]

\* A faulty variant: the mean is used as given, without promotion to 1-d.
atleast_1d_unpromoted(a) == a

\* np.atleast_1d: a 0-d array becomes a 1-d array of length 1.
atleast_1d(a) ==
    IF a.shape = <<>> THEN [a EXCEPT !.shape = <<1>>] ELSE a

\* np.atleast_2d: a 0-d array becomes (1,1), a 1-d array of length n becomes (1,n).
atleast_2d(a) ==
    IF a.shape = <<>> THEN [a EXCEPT !.shape = <<1, 1>>]
    ELSE IF Len(a.shape) = 1 THEN [a EXCEPT !.shape = <<1, a.shape[1]>>]
    ELSE a

\* Entry (i, j), 1-based, of a 2-d array.
At(a, i, j) == a.data[(i - 1) * a.shape[2] + j]

RECURSIVE SumTo(_, _)
SumTo(f, n) == IF n = 0 THEN 0 ELSE f[n] + SumTo(f, n - 1)

\* a.dot(b) for two 1-d arrays of the same length.
VDot(a, b) == SumTo([k \in 1..Len(a.data) |-> a.data[k] * b.data[k]], Len(a.data))

\* a - b, elementwise, for two arrays of the same shape.
Sub(a, b) == [a EXCEPT !.data = [k \in 1..Len(a.data) |-> a.data[k] - b.data[k]]]

\* a.dot(b) for two square 2-d arrays of the same shape.
Dot(a, b) ==
    LET n == a.shape[1]
    IN  [a EXCEPT !.data =
            [k \in 1..(n * n) |->
                LET i == ((k - 1) \div n) + 1
                    j == ((k - 1) % n) + 1
                IN  SumTo([l \in 1..n |-> At(a, i, l) * At(b, l, j)], n)],
          !.dtype = IF a.dtype = "complex" \/ b.dtype = "complex"
                    THEN "complex" ELSE "float"]

\* a + np.eye(n) * e for a square 2-d array.
AddEye(a, e) ==
    LET n == a.shape[1]
    IN  [a EXCEPT !.data =
            [k \in 1..(n * n) |->
                IF ((k - 1) \div n) = ((k - 1) % n) THEN a.data[k] + e ELSE a.data[k]]]

\* np.trace of a square 2-d array.
Trace(a) == SumTo([i \in 1..a.shape[1] |-> At(a, i, i)], a.shape[1])

(***************************************************************************)
(* scipy.linalg.sqrtm on an upper-triangular matrix of size 1 or 2.  Such  *)
(* a matrix is its own Schur form, so sqrtm runs its triangular recurrence *)
(* directly on it: the diagonal of the root is the principal square root   *)
(* of the diagonal (complex as soon as one diagonal entry is negative or   *)
(* the input is complex), and the entry above the diagonal divides by      *)
(* R[1,1] + R[2,2]; a zero divisor under a nonzero numerator has no root,  *)
(* and sqrtm answers with an array of the input's dtype filled with NaN.   *)
(* The result records what the caller reads: whether every entry is        *)
(* finite, the dtype, and the real and imaginary parts of the diagonal.    *)
(***************************************************************************)
IsSquare(n) == \E r \in 0..n : r * r = n

\* The integer square root: exact on a perfect square.
ISqrt(n) == CHOOSE r \in 0..n : r * r <= n /\ n < (r + 1) * (r + 1)

Abs(x) == IF x < 0 THEN -x ELSE x

Diag(a) == [i \in 1..a.shape[1] |-> At(a, i, i)]

Sqrtm(a) ==
    LET n == a.shape[1]
        d == Diag(a)
        cplx == a.dtype = "complex" \/ \E i \in 1..n : d[i] < 0
        fail == n = 2 /\ d[1] = 0 /\ d[2] = 0 /\ At(a, 1, 2) # 0
    IN  IF fail
        THEN [finite |-> FALSE, dtype |-> a.dtype,
              re |-> [i \in 1..n |-> 0], im |-> [i \in 1..n |-> 0]]
        ELSE [finite |-> TRUE, dtype |-> IF cplx THEN "complex" ELSE "float",
              re |-> [i \in 1..n |-> IF d[i] >= 0 THEN ISqrt(d[i]) ELSE 0],
              im |-> [i \in 1..n |-> IF d[i] < 0 THEN ISqrt(-d[i]) ELSE 0]]

(***************************************************************************)
(* calculate_frechet_distance(mu1, sigma1, mu2, sigma2, eps)               *)
(* The outcome is the exception raised or the value returned (NaN when     *)
(* the trace of covmean is NaN), with the number of sqrtm calls made.      *)
(***************************************************************************)
Raise(exc, calls) ==
    [kind |-> exc, value |-> 0, nan |-> FALSE, sqrtm_calls |-> calls, took_real |-> FALSE]

Return(v, isnan, calls, real) ==
    [kind |-> "return", value |-> IF isnan THEN 0 ELSE v, nan |-> isnan,
     sqrtm_calls |-> calls, took_real |-> real]

\* A faulty variant: only sigma1 is regularized.
Regularized_first_only(s1, s2, e) == Dot(AddEye(s1, e), s2)

\* Lines 190-199: the first square root and, if it is not finite, the second.
Regularized(s1, s2, e) == Dot(AddEye(s1, e), AddEye(s2, e))

FirstRoot(s1, s2) == Sqrtm(Dot(s1, s2))

Covmean(s1, s2, e) ==
    IF ~FirstRoot(s1, s2).finite THEN Sqrtm(Regularized(s1, s2, e)) ELSE FirstRoot(s1, s2)

SqrtmCalls(s1, s2) == IF ~FirstRoot(s1, s2).finite THEN 2 ELSE 1

\* Line 203: np.allclose(np.diagonal(covmean).imag, 0, atol=1e-3), on integers.
ImagNegligible(c) == \A i \in 1..Len(c.im) : c.im[i] = 0

\* A faulty variant: the trace of the root is subtracted once, not twice.
Distance_single_root(diff, s1, s2, c) ==
    VDot(diff, diff) + Trace(s1) + Trace(s2) - SumTo(c.re, Len(c.re))

\* Lines 208-210.
Distance(diff, s1, s2, c) == VDot(diff, diff) + Trace(s1) + Trace(s2) - 2 * SumTo(c.re, Len(c.re))

calculate_frechet_distance(m1, s1, m2, s2, e) ==
    LET a1 == atleast_1d(m1)
        a2 == atleast_1d(m2)
        S1 == atleast_2d(s1)
        S2 == atleast_2d(s2)
    IN  IF a1.shape # a2.shape THEN Raise("AssertionError", 0)
        ELSE IF S1.shape # S2.shape THEN Raise("AssertionError", 0)
        ELSE
            LET diff == Sub(a1, a2)
                covmean == Covmean(S1, S2, e)
                calls == SqrtmCalls(S1, S2)
            IN  IF covmean.dtype = "complex" /\ ~ImagNegligible(covmean)
                THEN Raise("ValueError", calls)
                ELSE Return(Distance(diff, S1, S2, covmean), ~covmean.finite,
                            calls, covmean.dtype = "complex")

(***************************************************************************)
(* The arguments the model calls calculate_frechet_distance with.          *)
(***************************************************************************)
MuVals == {0, MaxMu}

MuInputs ==
    {Arr(<<>>, <<v>>) : v \in MuVals}
    \cup {Arr(<<1>>, <<v>>) : v \in MuVals}
    \cup {Arr(<<2>>, <<v, 0>>) : v \in MuVals}

DiagVals == {-1, 0, 1, MaxDiag}

Dtypes == {"float", "complex"}

Mat(shape, data, dtype) == [shape |-> shape, data |-> data, dtype |-> dtype]

SigmaInputs ==
    {Mat(<<>>, <<v>>, t) : v \in DiagVals, t \in Dtypes}
    \cup {Mat(<<1, 1>>, <<v>>, t) : v \in DiagVals, t \in Dtypes}
    \cup {Mat(<<2, 2>>, <<a, b, 0, d>>, t) :
            a \in DiagVals, b \in 0..MaxOff, d \in DiagVals, t \in Dtypes}

\* The roots the call takes are roots of (plus or minus) perfect squares.
SquareDiag(a) == \A i \in 1..a.shape[1] : IsSquare(Abs(At(a, i, i)))

Representable(s1, s2) ==
    LET S1 == atleast_2d(s1)
        S2 == atleast_2d(s2)
    IN  S1.shape = S2.shape =>
            /\ SquareDiag(Dot(S1, S2))
            /\ (~FirstRoot(S1, S2).finite \/ ~FirstRoot(S2, S1).finite)
                    => SquareDiag(Regularized(S1, S2, eps))

(***************************************************************************)
(* Specification of calculate_frechet_distance: the arguments are chosen   *)
(* initially and the call runs as one step.                                *)
(***************************************************************************)
InitFrechet ==
    /\ pc = "call"
    /\ mu1 \in MuInputs
    /\ mu2 \in MuInputs
    /\ sigma1 \in SigmaInputs
    /\ sigma2 \in SigmaInputs
    /\ Representable(sigma1, sigma2)
    /\ frechet = None
    /\ xyz1 = None /\ xyz2 = None /\ fwd = None /\ ctx = None /\ bwd = None
    /\ files = None /\ batch_size = None /\ act = None
    /\ entry = None /\ events = None /\ fid = None

CallFrechet ==
    /\ pc = "call"
    /\ pc' = "done"
    /\ frechet' = calculate_frechet_distance(mu1, sigma1, mu2, sigma2, eps)
    /\ UNCHANGED <<mu1, sigma1, mu2, sigma2>>
    /\ UNCHANGED <<chamferVars, activationVars, entryVars>>

NextFrechet == CallFrechet

SpecFrechet == InitFrechet /\ [][NextFrechet]_vars

(***************************************************************************)
(* Properties of calculate_frechet_distance.                               *)
(***************************************************************************)
\* What a caller observes of a call: the exception, or the value returned.
Outcome(r) == <<r.kind, r.value, r.nan>>

\* The two summaries have the same dimensionality: as many mean components
\* and as many covariance entries (all covariance inputs are square).
SameDimensionality ==
    Len(mu1.data) = Len(mu2.data) /\ Len(sigma1.data) = Len(sigma2.data)

\* The square root of the regularized product, as the retry computes it.
SecondRoot == Sqrtm(Regularized(atleast_2d(sigma1), atleast_2d(sigma2), eps))

RetryTaken ==
    SameDimensionality /\ ~FirstRoot(atleast_2d(sigma1), atleast_2d(sigma2)).finite

\* C1 (as claimed): when the first square root is not finite the root is
\* recomputed once on the regularized product, and if the recomputed root is
\* still invalid (not finite, or complex with a diagonal imaginary part above
\* the tolerance) the call ends in an error and returns nothing.
C1_InvalidRetryIsFatal ==
    (pc = "done" /\ RetryTaken) =>
        /\ frechet.sqrtm_calls = 2
        /\ (~SecondRoot.finite \/ (SecondRoot.dtype = "complex" /\ ~ImagNegligible(SecondRoot)))
                => frechet.kind # "return"

\* C5: the call ends in an AssertionError, with no square root computed,
\* exactly when the two summaries differ in dimensionality; a call that
\* returns a value had summaries of the same dimensionality.
C5_DimensionMismatchAsserts ==
    pc = "done" =>
        /\ ~SameDimensionality <=> frechet.kind = "AssertionError"
        /\ ~SameDimensionality => frechet.sqrtm_calls = 0
        /\ frechet.kind = "return" => SameDimensionality

C5_Witness ==
    /\ pc = "done"
    /\ Len(mu1.data) = Len(mu2.data)
    /\ Len(sigma1.data) # Len(sigma2.data)
    /\ frechet.kind = "AssertionError"

\* The squared Euclidean distance between two mean vectors.
SquaredDistance(a, b) ==
    SumTo([k \in 1..Len(a.data) |-> (a.data[k] - b.data[k]) * (a.data[k] - b.data[k])],
          Len(a.data))

DiagOf(s) == IF Len(s.data) = 1 THEN <<s.data[1]>> ELSE <<s.data[1], s.data[4]>>

TraceOf(s) == SumTo(DiagOf(s), Len(DiagOf(s)))

\* tr(sqrt(sigma1*sigma2)) of two triangular matrices with a nonnegative product diagonal.
TraceOfRoot(s1, s2) ==
    SumTo([i \in 1..Len(DiagOf(s1)) |-> ISqrt(DiagOf(s1)[i] * DiagOf(s2)[i])], Len(DiagOf(s1)))

RootFiniteAndReal ==
    /\ SameDimensionality
    /\ FirstRoot(atleast_2d(sigma1), atleast_2d(sigma2)).finite
    /\ FirstRoot(atleast_2d(sigma1), atleast_2d(sigma2)).dtype = "float"

\* C7: when the square root of sigma1*sigma2 is finite and real, the call
\* returns |mu1 - mu2|^2 + tr(sigma1) + tr(sigma2) - 2*tr(sqrt(sigma1*sigma2))
\* of the inputs as given; means 0 and 3 with variances 1 and 1 give 9.
C7_ClosedForm ==
    (pc = "done" /\ RootFiniteAndReal) =>
        /\ frechet.kind = "return"
        /\ ~frechet.nan
        /\ frechet.value = SquaredDistance(mu1, mu2) + TraceOf(sigma1) + TraceOf(sigma2)
                            - 2 * TraceOfRoot(sigma1, sigma2)
        /\ (mu1.data = <<0>> /\ mu2.data = <<3>> /\ sigma1.data = <<1>> /\ sigma2.data = <<1>>)
                => frechet.value = 9

C7_Witness ==
    /\ pc = "done"
    /\ mu1.data = <<0>> /\ mu2.data = <<3>>
    /\ sigma1.data = <<1>> /\ sigma2.data = <<1>>
    /\ sigma1.dtype = "float" /\ sigma2.dtype = "float"
    /\ frechet.kind = "return"
    /\ frechet.value = 9

\* The call with the two summaries exchanged.
Swapped == calculate_frechet_distance(mu2, sigma2, mu1, sigma1, eps)

Commute ==
    Dot(atleast_2d(sigma1), atleast_2d(sigma2)).data
        = Dot(atleast_2d(sigma2), atleast_2d(sigma1)).data

Tensor(shape, data) == [shape |-> shape, data |-> data]

\* torch.zeros(b, n, k)
Zeros3(b, n, k) == Tensor(<<b, n, k>>, [x \in 1..b |-> [i \in 1..n |-> [c \in 1..k |-> 0]]])

\* torch.cat([s, t], dim=2): the sizes must agree in every other dimension.
CatFits(s, t) == s.shape[1] = t.shape[1] /\ s.shape[2] = t.shape[2]

Cat2(s, t) ==
    Tensor(<<s.shape[1], s.shape[2], s.shape[3] + t.shape[3]>>,
           [x \in 1..s.shape[1] |-> [i \in 1..s.shape[2] |-> s.data[x][i] \o t.data[x][i]]])

(***************************************************************************)
(* The compiled kernel cd.forward / cd.forward_cuda (chamfer_distance.cpp, *)
(* chamfer_distance.cu): for each point of one set the least squared       *)
(* distance to a point of the other set and the index (0-based) of the     *)
(* first point that achieves it.                                           *)
(***************************************************************************)
SqDist(p, q) == SumTo([c \in 1..Len(p) |-> (p[c] - q[c]) * (p[c] - q[c])], Len(p))

NearestDist(p, qs) ==
    CHOOSE d \in {SqDist(p, qs[j]) : j \in 1..Len(qs)} :
        \A j \in 1..Len(qs) : d <= SqDist(p, qs[j])

NearestIdx(p, qs) ==
    (CHOOSE j \in 1..Len(qs) :
        /\ SqDist(p, qs[j]) = NearestDist(p, qs)
        /\ \A l \in 1..(j - 1) : SqDist(p, qs[l]) # NearestDist(p, qs)) - 1

cd_forward(a, b) ==
    [dist1 |-> [x \in 1..a.shape[1] |-> [i \in 1..a.shape[2] |->
                    NearestDist(a.data[x][i], b.data[x])]],
     dist2 |-> [x \in 1..a.shape[1] |-> [j \in 1..b.shape[2] |->
                    NearestDist(b.data[x][j], a.data[x])]],
     idx1  |-> [x \in 1..a.shape[1] |-> [i \in 1..a.shape[2] |->
                    NearestIdx(a.data[x][i], b.data[x])]],
     idx2  |-> [x \in 1..a.shape[1] |-> [j \in 1..b.shape[2] |->
                    NearestIdx(b.data[x][j], a.data[x])]]]

(***************************************************************************)
(* ChamferDistanceFunction.forward(ctx, xyz1, xyz2)                        *)
(***************************************************************************)
\* Lines 24-26: a 2-d input gets a zero third coordinate from a tensor of batch size 1.
Is2d(a) == a.shape[3] = 2

PadFits(a, b) ==
    CatFits(a, Zeros3(1, a.shape[2], 1)) /\ CatFits(b, Zeros3(1, b.shape[2], 1))

Pad(a) == Cat2(a, Zeros3(1, a.shape[2], 1))

Padded(a, b) == IF Is2d(a) THEN <<Pad(a), Pad(b)>> ELSE <<a, b>>

\* A faulty variant: the kernel is called with the two sets exchanged.
forward_exchanged(a, b) ==
    IF Is2d(a) /\ ~PadFits(a, b)
    THEN [kind |-> "RuntimeError", saved |-> None]
    ELSE LET p == Padded(a, b)
             r == cd_forward(p[2], p[1])
         IN  [kind |-> "return",
              dist1 |-> r.dist1, dist2 |-> r.dist2, idx1 |-> r.idx1, idx2 |-> r.idx2,
              saved |-> [xyz1 |-> p[1], xyz2 |-> p[2], idx1 |-> r.idx1, idx2 |-> r.idx2]]

forward(a, b) ==
    IF Is2d(a) /\ ~PadFits(a, b)
    THEN [kind |-> "RuntimeError", saved |-> None]
    ELSE LET p == Padded(a, b)
             r == cd_forward(p[1], p[2])
         IN  [kind |-> "return",
              dist1 |-> r.dist1, dist2 |-> r.dist2, idx1 |-> r.idx1, idx2 |-> r.idx2,
              saved |-> [xyz1 |-> p[1], xyz2 |-> p[2], idx1 |-> r.idx1, idx2 |-> r.idx2]]

(***************************************************************************)
(* The compiled kernel cd.backward / cd.backward_cuda: each matched pair   *)
(* (point, nearest neighbour) adds 2*(point - neighbour)*graddist to the   *)
(* gradient of the point and subtracts it from that of the neighbour.      *)
(***************************************************************************)
\* The pull of the pairs (i, idx[i]) of one direction on point i of the first set ...
Own(ps, qs, idx, g, c) == [i \in 1..Len(ps) |-> 2 * g[i] * (ps[i][c] - qs[idx[i] + 1][c])]

\* ... and on point j of the second set.
Other(ps, qs, idx, g, c) ==
    [j \in 1..Len(qs) |->
        SumTo([i \in 1..Len(ps) |->
                  IF idx[i] + 1 = j THEN -(2 * g[i] * (ps[i][c] - qs[j][c])) ELSE 0], Len(ps))]

cd_backward(s, g1, g2) ==
    [gradxyz1 |->
        [x \in 1..s.xyz1.shape[1] |-> [i \in 1..s.xyz1.shape[2] |-> [c \in 1..s.xyz1.shape[3] |->
            Own(s.xyz1.data[x], s.xyz2.data[x], s.idx1[x], g1[x], c)[i]
            + Other(s.xyz2.data[x], s.xyz1.data[x], s.idx2[x], g2[x], c)[i]]]],
     gradxyz2 |->
        [x \in 1..s.xyz2.shape[1] |-> [j \in 1..s.xyz2.shape[2] |-> [c \in 1..s.xyz2.shape[3] |->
            Own(s.xyz2.data[x], s.xyz1.data[x], s.idx2[x], g2[x], c)[j]
            + Other(s.xyz1.data[x], s.xyz2.data[x], s.idx1[x], g1[x], c)[j]]]]]

(***************************************************************************)
(* ChamferDistanceFunction.backward(ctx, graddist1, graddist2, ...): the   *)
(* gradients are allocated with the sizes of the saved tensors and filled  *)
(* in by the kernel.                                                       *)
(***************************************************************************)
backward(s, g1, g2) ==
    [gradxyz1 |-> Tensor(s.xyz1.shape, cd_backward(s, g1, g2).gradxyz1),
     gradxyz2 |-> Tensor(s.xyz2.shape, cd_backward(s, g1, g2).gradxyz2)]

(***************************************************************************)
(* The point sets the model calls forward with: both of the same k; batch  *)
(* element x of xyz1 is the first one moved by x-1 along the first axis.   *)
(***************************************************************************)
Axis(k, c, v) == [d \in 1..k |-> IF d = c THEN v ELSE 0]

Points(k) == {Axis(k, 1, 0)} \cup {Axis(k, c, MaxCoord) : c \in 1..k}

PointSets(k) == UNION {[1..n -> Points(k)] : n \in 1..MaxPoints}

Shift(p, v) == [p EXCEPT ![1] = p[1] + v]

Batch1(ps, b) ==
    Tensor(<<b, Len(ps), Len(ps[1])>>, [x \in 1..b |-> [i \in 1..Len(ps) |-> Shift(ps[i], x - 1)]])

Batch2(ps, b) ==
    Tensor(<<b, Len(ps), Len(ps[1])>>, [x \in 1..b |-> ps])

\* The upstream gradient of the sum of all distances.
Ones(t) == [x \in 1..t.shape[1] |-> [i \in 1..t.shape[2] |-> 1]]

InitChamfer ==
    /\ pc = "call"
    /\ \E k \in {2, 3}, b \in 1..MaxBatch :
         \E ps \in PointSets(k), qs \in PointSets(k) :
            /\ xyz1 = Batch1(ps, b)
            /\ xyz2 = Batch2(qs, b)
    /\ fwd = None /\ ctx = None /\ bwd = None
    /\ mu1 = None /\ mu2 = None /\ sigma1 = None /\ sigma2 = None /\ frechet = None
    /\ files = None /\ batch_size = None /\ act = None
    /\ entry = None /\ events = None /\ fid = None

Forward ==
    /\ pc = "call"
    /\ fwd' = forward(xyz1, xyz2)
    /\ ctx' = fwd'.saved
    /\ pc' = IF fwd'.kind = "return" THEN "forwarded" ELSE "raised"
    /\ UNCHANGED <<xyz1, xyz2, bwd>>
    /\ UNCHANGED <<frechetVars, activationVars, entryVars>>

Backward ==
    /\ pc = "forwarded"
    /\ bwd' = backward(ctx, Ones(ctx.xyz1), Ones(ctx.xyz2))
    /\ pc' = "done"
    /\ UNCHANGED <<xyz1, xyz2, fwd, ctx>>
    /\ UNCHANGED <<frechetVars, activationVars, entryVars>>

NextChamfer == Forward \/ Backward

SpecChamfer == InitChamfer /\ [][NextChamfer]_vars

(***************************************************************************)
(* Properties of the Chamfer operator.                                     *)
(***************************************************************************)
\* The same points with a third coordinate 0.
Embed(t) ==
    Tensor(<<t.shape[1], t.shape[2], 3>>,
           [x \in 1..t.shape[1] |-> [i \in 1..t.shape[2] |-> Append(t.data[x][i], 0)]])

Results(r) == <<r.kind, r.dist1, r.dist2, r.idx1, r.idx2>>

\* C2 (as claimed): for every batch size, forward on two 2-d point sets
\* succeeds and returns the distances and indices of the call on the same
\* points given in 3-d with third coordinate 0.
C2_TwoDimMatchesEmbedded ==
    (pc # "call" /\ Is2d(xyz1)) =>
        /\ fwd.kind = "return"
        /\ Results(fwd) = Results(forward(Embed(xyz1), Embed(xyz2)))

\* dist holds, for each point of ps, the least squared distance to a point
\* of qs, and idx the 0-based index of a point of qs at that distance.
IsNearest(ps, qs, dist, idx) ==
    /\ Len(dist) = Len(ps)
    /\ Len(idx) = Len(ps)
    /\ \A i \in 1..Len(ps) :
        /\ idx[i] \in 0..(Len(qs) - 1)
        /\ dist[i] = SqDist(ps[i], qs[idx[i] + 1])
        /\ \A j \in 1..Len(qs) : dist[i] <= SqDist(ps[i], qs[j])

Distinct(ps) == \A i, j \in 1..Len(ps) : i # j => ps[i] # ps[j]

\* C6: when forward returns, for every batch element dist1 and idx1 are the
\* least squared distances and achieving indices of set A against set B, and
\* dist2 and idx2 those of set B against set A; two identical sets of
\* pairwise distinct points give distance 0 and idx[i] = i everywhere.
C6_NearestNeighbours ==
    (pc # "call" /\ fwd.kind = "return") =>
        \A x \in 1..xyz1.shape[1] :
            /\ IsNearest(xyz1.data[x], xyz2.data[x], fwd.dist1[x], fwd.idx1[x])
            /\ IsNearest(xyz2.data[x], xyz1.data[x], fwd.dist2[x], fwd.idx2[x])
            /\ (xyz1.data[x] = xyz2.data[x] /\ Distinct(xyz1.data[x])) =>
                    \A i \in 1..xyz1.shape[2] :
                        /\ fwd.dist1[x][i] = 0 /\ fwd.idx1[x][i] = i - 1
                        /\ fwd.dist2[x][i] = 0 /\ fwd.idx2[x][i] = i - 1

C6_Witness ==
    /\ pc = "forwarded"
    /\ xyz1.shape = <<2, 2, 3>>
    /\ xyz2.shape = <<2, 2, 3>>
    /\ xyz1.data[1] = xyz2.data[1]
    /\ Distinct(xyz1.data[1])
    /\ fwd.idx1[1] = <<0, 1>>
    /\ fwd.dist1[1] = <<0, 0>>
    /\ \E i \in 1..2 : fwd.dist1[2][i] > 0
    /\ \E i \in 1..2 : fwd.idx2[2][i] # i - 1

\* C9 (as claimed): the two gradients backward returns have the shapes of
\* the two tensors that were passed to forward, for k = 2 as for k = 3.
C9_GradientShapes ==
    pc = "done" =>
        /\ bwd.gradxyz1.shape = xyz1.shape
        /\ bwd.gradxyz2.shape = xyz2.shape

(***************************************************************************)
(* get_activations(files, model, normalize_rgb, batch_size, ...)           *)
(***************************************************************************)
\* The activation row the model produces for one image file (lines 134-144).
Row(f) == <<"pool3", f>>

Min(a, b) == IF a < b THEN a ELSE b

\* Lines 107-114.
Clamp(bs, n) == IF bs > n THEN n ELSE bs

\* A faulty variant: drop_last=True, the incomplete last batch is dropped.
Batches_drop_last(fs, bs) ==
    [i \in 1..(Len(fs) \div bs) |-> SubSeq(fs, (i - 1) * bs + 1, i * bs)]

\* torch.utils.data.DataLoader(dataset, batch_size=bs, shuffle=False,
\* drop_last=False): consecutive batches of bs samples, the last one shorter.
Batches(fs, bs) ==
    [i \in 1..((Len(fs) + bs - 1) \div bs) |->
        SubSeq(fs, (i - 1) * bs + 1, Min(i * bs, Len(fs)))]

\* Lines 131-146: one array of rows per batch.
Preds(bt) == [i \in 1..Len(bt) |-> [k \in 1..Len(bt[i]) |-> Row(bt[i][k])]]

\* np.concatenate(pred_arr, axis=0)
RECURSIVE Concatenate(_)
Concatenate(ps) == IF ps = <<>> THEN <<>> ELSE Head(ps) \o Concatenate(Tail(ps))

get_activations(fs, bs) ==
    LET b == Clamp(bs, Len(fs))
    IN  IF b <= 0
        THEN \* DataLoader refuses a batch size that is not a positive integer.
             [kind |-> "ValueError", warned |-> bs > Len(fs), batch_size |-> b, pred_arr |-> <<>>]
        ELSE [kind |-> "return", warned |-> bs > Len(fs), batch_size |-> b,
              pred_arr |-> Concatenate(Preds(Batches(fs, b)))]

FileLists == UNION {[1..n -> 1..MaxFiles] : n \in 0..MaxFiles}

InitActivations ==
    /\ pc = "call"
    /\ files \in FileLists
    /\ batch_size \in 0..MaxBatchSize
    /\ act = None
    /\ mu1 = None /\ mu2 = None /\ sigma1 = None /\ sigma2 = None /\ frechet = None
    /\ xyz1 = None /\ xyz2 = None /\ fwd = None /\ ctx = None /\ bwd = None
    /\ entry = None /\ events = None /\ fid = None

GetActivations ==
    /\ pc = "call"
    /\ act' = get_activations(files, batch_size)
    /\ pc' = "done"
    /\ UNCHANGED <<files, batch_size>>
    /\ UNCHANGED <<frechetVars, chamferVars, entryVars>>

NextActivations == GetActivations

SpecActivations == InitActivations /\ [][NextActivations]_vars

Resnet(path, args, norm) ==
    [loader |-> "load_resnet", path |-> path, args |-> args, normalize_rgb |-> norm]

Inception == [loader |-> "InceptionV3", path |-> "", args |-> <<<<3>>>>, normalize_rgb |-> FALSE]

NotImplemented == [loader |-> "NotImplementedError"]

\* Lines 281-297.
model_given_paths(t) ==
    CASE t = "sketch"  -> Resnet("data/resnet18_sketch", <<<<3>>>>, FALSE)
      [] t = "cad"     -> Resnet("data/abc_processed/fid/resnet18_cad.ckpt", <<<<3>>>>, TRUE)
      [] t = "cad_v1"  -> Resnet("data/abc_processed/fid/resnet18_cad_v1.ckpt", <<<<3>>>>, TRUE)
      [] t = "vanilla" -> Inception
      [] OTHER         -> NotImplemented

\* Lines 320-338.
model_given_npz_and_paths(t) ==
    CASE t = "sketch"  -> Resnet("data/resnet18_sketch", <<<<3>>>>, FALSE)
      [] t = "cad"     -> Resnet("data/abc_processed/fid/resnet18_cad.ckpt", <<<<3>>, 40>>, TRUE)
      [] t = "cad_v1"  -> Resnet("data/abc_processed/fid/resnet18_cad_v1.ckpt", <<<<3>>, 40>>, TRUE)
      [] t = "vanilla" -> Inception
      [] OTHER         -> NotImplemented

\* A faulty variant: an unrecognized tag falls back to the vanilla extractor.
model_save_fid_stats_fallback(t) ==
    CASE t = "sketch"  -> Resnet("data/resnet18_sketch", <<<<3>>>>, FALSE)
      [] t = "cad"     -> Resnet("data/abc_processed/fid/resnet18_cad.ckpt", <<<<3>>, 40>>, TRUE)
      [] t = "cad_v1"  -> Resnet("data/abc_processed/fid/resnet18_cad_v1.ckpt", <<<<3>>, 40>>, TRUE)
      [] OTHER         -> Inception

\* Lines 355-373.
model_save_fid_stats(t) ==
    CASE t = "sketch"  -> Resnet("data/resnet18_sketch", <<<<3>>>>, FALSE)
      [] t = "cad"     -> Resnet("data/abc_processed/fid/resnet18_cad.ckpt", <<<<3>>, 40>>, TRUE)
      [] t = "cad_v1"  -> Resnet("data/abc_processed/fid/resnet18_cad_v1.ckpt", <<<<3>>, 40>>, TRUE)
      [] t = "vanilla" -> Inception
      [] OTHER         -> NotImplemented

\* The model is built and moved to the device.
Load(m, device) == [op |-> "model", model |-> m, device |-> device]

\* compute_statistics_of_paths(paths, model, normalize_rgb, batch_size, device, num_workers, verbose)
Stats(what, m, e, verbose) ==
    [op |-> "compute_statistics_of_paths", paths |-> what, model |-> m,
     normalize_rgb |-> m.normalize_rgb, batch_size |-> e.batch_size, device |-> e.device,
     num_workers |-> e.num_workers, verbose |-> verbose]

Did(op) == [op |-> op]

Raised(exc) == [kind |-> exc]

Returned(what) == [kind |-> "return", value |-> what]

calculate_fid_given_paths(e) ==
    LET m == model_given_paths(e.fid_type)
    IN  IF m = NotImplemented
        THEN [events |-> <<>>, fid |-> Raised("NotImplementedError")]
        ELSE [events |-> <<Load(m, e.device),
                           Stats("paths[0]", m, e, TRUE),
                           Stats("paths[1]", m, e, TRUE),
                           Did("calculate_frechet_distance")>>,
              fid |-> Returned("fid_value")]

calculate_fid_given_npz_and_paths(e) ==
    LET m == model_given_npz_and_paths(e.fid_type)
    IN  IF m = NotImplemented
        THEN [events |-> <<>>, fid |-> Raised("NotImplementedError")]
        ELSE [events |-> <<Load(m, e.device),
                           Did("np.load"),
                           Stats("paths", m, e, FALSE),
                           Did("calculate_frechet_distance")>>,
              fid |-> Returned("fid_value")]

save_fid_stats(e) ==
    LET m == model_save_fid_stats(e.fid_type)
    IN  IF m = NotImplemented
        THEN [events |-> <<>>, fid |-> Raised("NotImplementedError")]
        ELSE [events |-> <<Load(m, e.device),
                           Stats("paths", m, e, TRUE),
                           Did("np.savez_compressed")>>,
              fid |-> Returned("None")]

SupportedTags == {"sketch", "cad", "cad_v1", "vanilla"}

\* The tags the model calls the entry points with: the four supported ones and others.
Tags == SupportedTags \cup {"inception", "CAD", ""}

EntryPoints == {"calculate_fid_given_paths", "calculate_fid_given_npz_and_paths", "save_fid_stats"}

Entries ==
    [fn : EntryPoints, fid_type : Tags, device : {"cpu", "cuda"},
     batch_size : 1..MaxBatchSize, num_workers : {1}]

InitEntry ==
    /\ pc = "call"
    /\ entry \in Entries
    /\ events = <<>>
    /\ fid = None
    /\ mu1 = None /\ mu2 = None /\ sigma1 = None /\ sigma2 = None /\ frechet = None
    /\ xyz1 = None /\ xyz2 = None /\ fwd = None /\ ctx = None /\ bwd = None
    /\ files = None /\ batch_size = None /\ act = None

Finish(r) ==
    /\ events' = r.events
    /\ fid' = r.fid
    /\ pc' = "done"
    /\ UNCHANGED entry
    /\ UNCHANGED <<frechetVars, chamferVars, activationVars>>

CallFidGivenPaths ==
    /\ pc = "call"
    /\ entry.fn = "calculate_fid_given_paths"
    /\ Finish(calculate_fid_given_paths(entry))

CallFidGivenNpzAndPaths ==
    /\ pc = "call"
    /\ entry.fn = "calculate_fid_given_npz_and_paths"
    /\ Finish(calculate_fid_given_npz_and_paths(entry))

CallSaveFidStats ==
    /\ pc = "call"
    /\ entry.fn = "save_fid_stats"
    /\ Finish(save_fid_stats(entry))

NextEntry == CallFidGivenPaths \/ CallFidGivenNpzAndPaths \/ CallSaveFidStats

SpecEntry == InitEntry /\ [][NextEntry]_vars

\* C4: in each of the three entry points a tag outside {sketch, cad, cad_v1,
\* vanilla} raises NotImplementedError before anything else happens: no model
\* is loaded, no statistics file is read or written, no image is processed.
C4_UnknownTagRaisesFirst ==
    (pc = "done" /\ entry.fid_type \notin SupportedTags) =>
        /\ fid.kind = "NotImplementedError"
        /\ events = <<>>

C4_Witness ==
    /\ pc = "done"
    /\ entry.fn = "save_fid_stats"
    /\ entry.fid_type = "inception"
    /\ fid.kind = "NotImplementedError"
    /\ events = <<>>

\* The extractor the call loaded.
Loaded == events[1].model

\* C10 (as claimed): for each of the four supported tags the three entry
\* points bind the tag to the same extractor configuration: same checkpoint
\* path, same loader arguments, same normalization flag.
C10_SameExtractor ==
    (pc = "done" /\ entry.fid_type \in SupportedTags) =>
        /\ fid.kind = "return"
        /\ Loaded = calculate_fid_given_paths(entry).events[1].model
        /\ Loaded = calculate_fid_given_npz_and_paths(entry).events[1].model
        /\ Loaded = save_fid_stats(entry).events[1].model

====
